---- MODULE Spec2Model ----
(***************************************************************************)
(* git-big-picture: the in-memory commit graph (CommitGraph), its          *)
(* construction, the reachability filter and the dot renderer of           *)
(* src/git_big_picture/main.py.                                            *)
(*                                                                         *)
(* Commit ids are the opaque tokens 1..MaxCommit.  A parent list is        *)
(* modelled by the set of its elements (the loader supplies no duplicate   *)
(* parents, and no operation of the module depends on the order of a       *)
(* parent list).  Every acyclic graph is isomorphic to one whose parents   *)
(* have larger ids than their children, so the loader's parent maps are    *)
(* drawn from those.  An id may be absent from the parent map (an object   *)
(* that is not a commit, or history cut off by a shallow clone).           *)
(*                                                                         *)
(* Python objects that are handed around by reference (the three dicts a   *)
(* CommitGraph is built from) live in `heap`; a graph holds references.    *)
(***************************************************************************)
EXTENDS Integers, FiniteSets, Sequences, TLC

MaxCommit == 3

Ids == 1..MaxCommit

\* Reference names: integers standing for ref-name strings, sorted() orders them.
TagName == {1}
BranchName == {2}
LaterName == {3}

EmptyMap == [c \in {} |-> {}]

\* ------------------------------------------------------------------ state

VARIABLES
    heap,         \* reference -> dict (commit id -> set of ids or of names)
    src,          \* the graph built from the loader's maps
    res,          \* the graph returned by the latest successful _filter
    op,           \* the operation that produced this state
    err,          \* the exception the operation raised, or "none"
    flags,        \* the keyword arguments of the latest _filter call
    interesting,  \* _filter's local `interesting`
    target,       \* which graph the latest render was called on
    lines,        \* the lines returned by the latest render
    mutated,      \* the caller has changed the returned graph's data
    spc,          \* position inside a stepwise _filter call
    todo,         \* interesting commits the outer loop has not reached yet
    commit_i,     \* the outer loop's commit
    to_visit,     \* the work list of the search in progress
    idx,          \* position of the inner for-loop in to_visit
    seen,         \* the set of seen commits of the search in progress
    rip,          \* reachable_interesting_parents
    expanded,     \* history: commits whose parents this search queued
    seenAdds      \* history: how often each commit was added to seen

vars == <<heap, src, res, op, err, flags, interesting, target, lines, mutated,
          spc, todo, commit_i, to_visit, idx, seen, rip, expanded, seenAdds>>

searchVars == <<spc, todo, commit_i, to_visit, idx, seen, rip, expanded, seenAdds>>

\* ------------------------------------------------------------------ helpers

\* list(some_set) / iteration over a set: the elements in ascending order.
RECURSIVE ListOf(_)
ListOf(S) ==
    IF S = {} THEN <<>>
    ELSE LET m == CHOOSE x \in S : \A y \in S : x <= y
         IN  <<m>> \o ListOf(S \ {m})

\* dict.get(k, empty)
Get(d, k) == IF k \in DOMAIN d THEN d[k] ELSE {}

\* d[k] = v
Put(d, k, v) == [x \in DOMAIN d \cup {k} |-> IF x = k THEN v ELSE d[x]]

\* ------------------------------------------------------------------ graphs

NoGraph ==
    [built |-> FALSE,
     parents |-> [kind |-> "dict", ref |-> "none", key |-> 0],
     branches |-> "none", tags |-> "none",
     children |-> EmptyMap, dotdot |-> {}]

\* self.parents is a dict, or (after a render) one of a dict's values.
IsDict(g) == g.parents.kind = "dict"

ParentsDict(h, g) == h[g.parents.ref]

ParentsList(h, g) == h[g.parents.ref][g.parents.key]

\* The data a graph holds, followed through its references.
GraphVal(h, g) ==
    IF ~g.built THEN [built |-> FALSE]
    ELSE [built |-> TRUE,
          kind |-> g.parents.kind,
          parents |-> IF IsDict(g) THEN ParentsDict(h, g) ELSE EmptyMap,
          plist |-> IF IsDict(g) THEN {} ELSE ParentsList(h, g),
          children |-> g.children,
          branches |-> h[g.branches],
          tags |-> h[g.tags],
          dotdot |-> g.dotdot]

\* _calculate_child_mapping with lines 78-79 left out.
CalculateChildMapping_NoOwnEntry(parents) ==
    LET ps == UNION {parents[c] : c \in DOMAIN parents}
    IN  [p \in ps |-> {c \in DOMAIN parents : p \in parents[c]}]

\* _calculate_child_mapping with line 77 adding the parent to the child's entry.
CalculateChildMapping_Reversed(parents) ==
    LET ps == UNION {parents[c] : c \in DOMAIN parents}
    IN  [p \in ps \cup DOMAIN parents |-> IF p \in DOMAIN parents THEN parents[p] ELSE {}]

\* _calculate_child_mapping: one entry per parent named (its children) and one per
\* key of parents (empty when it has no children).
CalculateChildMapping(parents) ==
    LET ps == UNION {parents[c] : c \in DOMAIN parents}
    IN  [p \in ps \cup DOMAIN parents |-> {c \in DOMAIN parents : p \in parents[c]}]

\* {e} when a check of kind e can fail, else {}.
RaisedIf(fails, e) == IF fails THEN {e} ELSE {}

\* The exceptions the first loop of _verify_child_mapping can raise (lines 84-87).
VerifyParentsLoop(parents, children) ==
    LET pairs == {sp \in (DOMAIN parents) \X Ids : sp[2] \in parents[sp[1]]}
        known == {sp \in pairs : sp[2] \in DOMAIN children}
    IN  RaisedIf(\E sp \in pairs : sp[2] \notin DOMAIN children, "KeyError")
        \cup RaisedIf(\E sp \in known : \E c \in children[sp[2]] :
                          c \notin DOMAIN parents, "KeyError")
        \cup RaisedIf(\E sp \in known : \E c \in children[sp[2]] :
                          c \in DOMAIN parents /\ sp[2] \notin parents[c],
                      "AssertionError")

\* The exceptions the second loop can raise (lines 88-91).
VerifyChildrenLoop(parents, children) ==
    LET pairs == {sc \in (DOMAIN children) \X Ids : sc[2] \in children[sc[1]]}
        known == {sc \in pairs : sc[2] \in DOMAIN parents}
    IN  RaisedIf(\E sc \in pairs : sc[2] \notin DOMAIN parents, "KeyError")
        \cup RaisedIf(\E sc \in known : \E p \in parents[sc[2]] :
                          p \notin DOMAIN children, "KeyError")
        \cup RaisedIf(\E sc \in known : \E p \in parents[sc[2]] :
                          p \in DOMAIN children /\ sc[2] \notin children[p],
                      "AssertionError")

\* _verify_child_mapping: the outcomes it can have.  The first failing check in
\* iteration order raises; dict and set order is arbitrary, so any failing check of
\* the first loop can be the one, and the second loop runs only if the first passes.
VerifyChildMapping(parents, children) ==
    IF VerifyParentsLoop(parents, children) # {}
        THEN VerifyParentsLoop(parents, children)
    ELSE IF VerifyChildrenLoop(parents, children) # {}
        THEN VerifyChildrenLoop(parents, children)
    ELSE {"none"}

\* CommitGraph.__init__: the object built around the three references handed in.
NewGraph(parents, parentsRef, branchesRef, tagsRef) ==
    [built |-> TRUE,
     parents |-> [kind |-> "dict", ref |-> parentsRef, key |-> 0],
     branches |-> branchesRef, tags |-> tagsRef,
     children |-> CalculateChildMapping(parents), dotdot |-> {}]

\* ------------------------------------------------------------------ queries

\* _find_roots
FindRoots(parents) == {sha \in DOMAIN parents : parents[sha] = {}}

\* _find_merges
FindMerges(parents) == {sha \in DOMAIN parents : Cardinality(parents[sha]) > 1}

\* _find_bifurcations
FindBifurcations(children) == {sha \in DOMAIN children : Cardinality(children[sha]) > 1}

\* ------------------------------------------------------------------ _filter

DefaultFlags ==
    [branches |-> TRUE, tags |-> TRUE, roots |-> FALSE, merges |-> FALSE,
     bifurcations |-> FALSE, additional |-> {}]

\* Every choice of the five flags, with no or one additional id.
FlagChoices ==
    [branches : BOOLEAN, tags : BOOLEAN, roots : BOOLEAN, merges : BOOLEAN,
     bifurcations : BOOLEAN, additional : {{}} \cup {{c} : c \in Ids}]

\* Lines 143-155 with the tags flag ignored.
Interesting_NoTags(h, g, a) ==
    (IF a.branches THEN DOMAIN h[g.branches] ELSE {})
    \cup (IF a.roots /\ IsDict(g) THEN FindRoots(ParentsDict(h, g)) ELSE {})
    \cup (IF a.merges /\ IsDict(g) THEN FindMerges(ParentsDict(h, g)) ELSE {})
    \cup (IF a.bifurcations THEN FindBifurcations(g.children) ELSE {})
    \cup a.additional

\* Lines 143-155: the list `interesting`, as the set of its elements (a commit
\* listed twice is searched twice, with the same result).
Interesting(h, g, a) ==
    (IF a.branches THEN DOMAIN h[g.branches] ELSE {})
    \cup (IF a.tags THEN DOMAIN h[g.tags] ELSE {})
    \cup (IF a.roots /\ IsDict(g) THEN FindRoots(ParentsDict(h, g)) ELSE {})
    \cup (IF a.merges /\ IsDict(g) THEN FindMerges(ParentsDict(h, g)) ELSE {})
    \cup (IF a.bifurcations THEN FindBifurcations(g.children) ELSE {})
    \cup a.additional

\* Lines 160-168: the state of one search as it starts.  adds and expanded record
\* what the search did: how often line 175 added each commit to seen, and the
\* commits line 181 queued the parents of.
StartSearch(parents, i) ==
    [to_visit |-> ListOf(Get(parents, i)), idx |-> 1, seen |-> {},
     found |-> {}, err |-> "none",
     adds |-> [c \in Ids |-> 0], expanded |-> {}]

\* The loop body with the seen test of lines 172-173 left out.
SearchStep_NoSeenTest(parents, I, s) ==
    LET commit_j == s.to_visit[s.idx]
    IN  IF commit_j \in I
            THEN [s EXCEPT !.idx = @ + 1, !.seen = @ \cup {commit_j},
                           !.adds[commit_j] = @ + 1,
                           !.found = @ \cup {commit_j}]
        ELSE IF commit_j \in DOMAIN parents
            THEN [s EXCEPT !.idx = @ + 1, !.seen = @ \cup {commit_j},
                           !.adds[commit_j] = @ + 1,
                           !.expanded = @ \cup {commit_j},
                           !.to_visit = @ \o ListOf(parents[commit_j])]
        ELSE [s EXCEPT !.seen = @ \cup {commit_j}, !.adds[commit_j] = @ + 1,
                       !.err = "KeyError"]

\* The loop body searching on past an interesting commit.
SearchStep_PastInteresting(parents, I, s) ==
    LET commit_j == s.to_visit[s.idx]
    IN  IF commit_j \in s.seen
            THEN [s EXCEPT !.idx = @ + 1]
        ELSE IF commit_j \in DOMAIN parents
            THEN [s EXCEPT !.idx = @ + 1, !.seen = @ \cup {commit_j},
                           !.adds[commit_j] = @ + 1,
                           !.found = IF commit_j \in I THEN @ \cup {commit_j} ELSE @,
                           !.expanded = @ \cup {commit_j},
                           !.to_visit = @ \o ListOf(parents[commit_j])]
        ELSE [s EXCEPT !.seen = @ \cup {commit_j}, !.adds[commit_j] = @ + 1,
                       !.err = "KeyError"]

\* The loop body not searching on from a commit that is not interesting.
SearchStep_NoExpand(parents, I, s) ==
    LET commit_j == s.to_visit[s.idx]
    IN  IF commit_j \in s.seen
            THEN [s EXCEPT !.idx = @ + 1]
        ELSE IF commit_j \in I
            THEN [s EXCEPT !.idx = @ + 1, !.seen = @ \cup {commit_j},
                           !.adds[commit_j] = @ + 1,
                           !.found = @ \cup {commit_j}]
        ELSE [s EXCEPT !.idx = @ + 1, !.seen = @ \cup {commit_j},
                       !.adds[commit_j] = @ + 1]

\* Lines 170-181: one iteration of `for commit_j in to_visit`.  The list grows
\* while it is iterated; self.parents[commit_j] raises KeyError for an absent key.
SearchStep(parents, I, s) ==
    LET commit_j == s.to_visit[s.idx]
    IN  IF commit_j \in s.seen
            THEN [s EXCEPT !.idx = @ + 1]
        ELSE IF commit_j \in I
            THEN [s EXCEPT !.idx = @ + 1, !.seen = @ \cup {commit_j},
                           !.adds[commit_j] = @ + 1,
                           !.found = @ \cup {commit_j}]
        ELSE IF commit_j \in DOMAIN parents
            THEN [s EXCEPT !.idx = @ + 1, !.seen = @ \cup {commit_j},
                           !.adds[commit_j] = @ + 1,
                           !.expanded = @ \cup {commit_j},
                           !.to_visit = @ \o ListOf(parents[commit_j])]
        ELSE [s EXCEPT !.seen = @ \cup {commit_j}, !.adds[commit_j] = @ + 1,
                       !.err = "KeyError"]

\* The inner loop run until the list is exhausted or an exception leaves it.
RECURSIVE RunSearch(_, _, _)
RunSearch(parents, I, s) ==
    IF s.err # "none" \/ s.idx > Len(s.to_visit) THEN s
    ELSE RunSearch(parents, I, SearchStep(parents, I, s))

\* Lines 157-181 on a parent dict: the exception raised or the finished dict
\* reachable_interesting_parents.  (runs is written as the one element of a set so
\* that each search is evaluated once.)
SearchAll(parents, I) ==
    LET runs == CHOOSE f \in {[i \in I |-> RunSearch(parents, I, StartSearch(parents, i))]} :
                    TRUE
    IN  IF \E i \in I : runs[i].err # "none"
            THEN [err |-> "KeyError", interesting |-> I, rip |-> EmptyMap]
        ELSE [err |-> "none", interesting |-> I, rip |-> [i \in I |-> runs[i].found]]

\* Lines 143-181 on a graph whose self.parents a render has rebound to a parent
\* list: _find_roots and _find_merges raise AttributeError (a list has no
\* items()), `commit_i in self.parents` is list membership and
\* self.parents[commit_i] raises TypeError.
FilterRebound(plist, a, I) ==
    IF a.roots \/ a.merges
        THEN [err |-> "AttributeError", interesting |-> I, rip |-> EmptyMap]
    ELSE IF I \cap plist # {}
        THEN [err |-> "TypeError", interesting |-> I, rip |-> EmptyMap]
    ELSE [err |-> "none", interesting |-> I, rip |-> [i \in I |-> {}]]

\* Lines 143-181: the exception raised or reachable_interesting_parents.
FilterOutcome(h, g, a) ==
    IF IsDict(g) THEN SearchAll(ParentsDict(h, g), Interesting(h, g, a))
    ELSE FilterRebound(ParentsList(h, g), a, Interesting(h, g, a))

\* Lines 183-185 handing the receiver's own branch and tag dicts to the new graph.
ResultRefs_NoCopy ==
    [parents |-> "reachable_interesting_parents",
     branches |-> "branch_dict", tags |-> "tag_dict"]

\* Lines 183-185: the new graph is built around the fresh dict
\* reachable_interesting_parents and deep copies of self.branches and self.tags.
ResultRefs ==
    [parents |-> "reachable_interesting_parents",
     branches |-> "copy_branches", tags |-> "copy_tags"]

\* ------------------------------------------------------------------ rendering

MinDigits == 7
FullDigits == 40

\* sha_one_digits: None, or a number of digits.
DigitChoices ==
    {[given |-> FALSE, n |-> FullDigits], [given |-> TRUE, n |-> MinDigits],
     [given |-> TRUE, n |-> FullDigits]}

\* Lines 243: identifiers are shown shortened.
Truncating(digits) == digits.given /\ digits.n # FullDigits

NoSha == [id |-> 0, digits |-> 0]

\* format_sha_one: the first sha_one_digits characters of the id, or all 40.
FormatShaOne(sha_one, digits) ==
    [id |-> sha_one, digits |-> IF Truncating(digits) THEN digits.n ELSE FullDigits]

\* One line of output.  kind is "digraph {", "node" (a labelled node, lines
\* 236-240), "dotdot" (line 242), "plain" (lines 245-247), "edge" (line 250) or
\* "}"; color is the case number of "/pastel13/%d".
Line(kind, ref, names, sha, color, to) ==
    [kind |-> kind, ref |-> ref, names |-> names, sha |-> sha, color |-> color,
     target |-> to]

\* Lines 223-229 adding 1 for a branch as well.
ColorCase_BranchAsTag(isTag, isBranch) ==
    (IF isTag THEN 1 ELSE 0) + (IF isBranch THEN 1 ELSE 0)

\* Lines 223-229: 1 for tags, plus 2 for branches.
ColorCase(isTag, isBranch) ==
    (IF isTag THEN 1 ELSE 0) + (IF isBranch THEN 2 ELSE 0)

\* label_gen and lines 235-240: one line per key of branches or tags, its label
\* the sorted tag names, the sorted branch names and, if asked for, the id.
LabelLines(branches, tags, onLabels, digits) ==
    LET keys == ListOf(DOMAIN branches \cup DOMAIN tags)
    IN  [n \in 1..Len(keys) |->
            Line("node", keys[n],
                 ListOf(Get(tags, keys[n])) \o ListOf(Get(branches, keys[n])),
                 IF onLabels THEN FormatShaOne(keys[n], digits) ELSE NoSha,
                 ColorCase(keys[n] \in DOMAIN tags, keys[n] \in DOMAIN branches),
                 0)]

\* Lines 241-242.
DotdotLines(dotdot) ==
    LET keys == ListOf(dotdot)
    IN  [n \in 1..Len(keys) |-> Line("dotdot", keys[n], <<>>, NoSha, 0, 0)]

\* Lines 243-247: when shortening, one line per commit without label or dotdot.
PlainLines(parents, branches, tags, dotdot, digits) ==
    LET keys == ListOf({e \in DOMAIN parents :
                           ~(e \in DOMAIN branches \/ e \in DOMAIN tags \/ e \in dotdot)})
    IN  [n \in 1..Len(keys) |->
            Line("plain", keys[n], <<>>, FormatShaOne(keys[n], digits), 0, 0)]

\* Line 249-250 for one child.
EdgesOf(child, ps) ==
    LET l == ListOf(ps)
    IN  [n \in 1..Len(l) |-> Line("edge", child, <<>>, NoSha, 0, l[n])]

RECURSIVE EdgeLines(_, _)
\* Lines 248-250: the edges of the items in the order given.
EdgeLines(parents, order) ==
    IF order = <<>> THEN <<>>
    ELSE EdgesOf(Head(order), parents[Head(order)]) \o EdgeLines(parents, Tail(order))

\* The items of a dict in an order that ends with `last`.
ItemOrder(parents, last) ==
    IF DOMAIN parents = {} THEN <<>>
    ELSE ListOf(DOMAIN parents \ {last}) \o <<last>>

\* Lines 234-252 on a graph whose self.parents is a dict.
DotFileLines(parents, branches, tags, dotdot, onLabels, digits, last) ==
    <<Line("digraph {", 0, <<>>, NoSha, 0, 0)>>
    \o LabelLines(branches, tags, onLabels, digits)
    \o DotdotLines(dotdot)
    \o (IF Truncating(digits) THEN PlainLines(parents, branches, tags, dotdot, digits)
        ELSE <<>>)
    \o EdgeLines(parents, ItemOrder(parents, last))
    \o <<Line("}", 0, <<>>, NoSha, 0, 0)>>

\* Line 248: `for child, self.parents in self.parents.items()` binds self.parents
\* to each value in turn; after the loop it is the value of the last item.
ReboundParents(g, parents, last) ==
    IF DOMAIN parents = {} THEN g.parents
    ELSE [kind |-> "list", ref |-> g.parents.ref, key |-> last]

\* ------------------------------------------------------------------ inputs

Refs ==
    {"parent_map", "branch_dict", "tag_dict",
     "reachable_interesting_parents", "copy_branches", "copy_tags"}

\* The loader's parent maps: acyclic, with the ids 1..n as keys.  An id that is
\* no key has no parents, so it can be given a larger id than every key.
ParentMaps ==
    UNION {{pm \in [1..n -> SUBSET Ids] : \A c \in 1..n : \A p \in pm[c] : p > c} :
           n \in 0..MaxCommit}

\* The parent maps in which every parent named is a key.
ClosedParentMaps ==
    {pm \in ParentMaps : \A c \in DOMAIN pm : pm[c] \subseteq DOMAIN pm}

\* The loader's branch or tag maps: no ref, or refs at one id (commit or not).
LabelMaps(names) == {EmptyMap} \cup {[k \in {c} |-> names] : c \in Ids}

LoadedHeap(pm, bd, td) ==
    [r \in Refs |-> CASE r = "parent_map" -> pm
                      [] r = "branch_dict" -> bd
                      [] r = "tag_dict" -> td
                      [] OTHER -> EmptyMap]

\* _filter's arguments choosing among refs and roots only.
FlagsRefsRoots ==
    {a \in FlagChoices : ~a.merges /\ ~a.bifurcations /\ a.additional = {}}

\* _filter's arguments: the default flags and any additional ids.
FlagsDefault == {[DefaultFlags EXCEPT !.additional = ids] : ids \in SUBSET Ids}

\* ------------------------------------------------------------------ operations

SearchIdle ==
    /\ spc = "idle" /\ todo = {} /\ commit_i = 0 /\ to_visit = <<>> /\ idx = 0
    /\ seen = {} /\ rip = EmptyMap /\ expanded = {} /\ seenAdds = [c \in Ids |-> 0]

Loaded(pm, bd, td) ==
    /\ heap = LoadedHeap(pm, bd, td)
    /\ res = NoGraph
    /\ err = "none"
    /\ flags = DefaultFlags /\ interesting = {}
    /\ target = "none" /\ lines = <<>> /\ mutated = FALSE
    /\ SearchIdle

\* The loader has produced its three maps; no graph is built yet.
Init ==
    /\ \E pm \in ParentMaps, bd \in LabelMaps(BranchName), td \in LabelMaps(TagName) :
           Loaded(pm, bd, td)
    /\ src = NoGraph
    /\ op = "load"

\* CommitGraph(parent_map, branch_dict, tag_dict), lines 50-58.
Construct ==
    /\ op = "load"
    /\ \E e \in VerifyChildMapping(heap["parent_map"],
                                   CalculateChildMapping(heap["parent_map"])) :
           /\ err' = e
           /\ src' = IF e = "none"
                     THEN NewGraph(heap["parent_map"], "parent_map",
                                   "branch_dict", "tag_dict")
                     ELSE NoGraph
    /\ op' = "construct"
    /\ UNCHANGED <<heap, res, flags, interesting, target, lines, mutated>>
    /\ UNCHANGED searchVars

\* Lines 183-185: the graph built from a finished reachable_interesting_parents.
ReturnGraph(out, e) ==
    /\ err' = e
    /\ IF e = "none"
       THEN /\ heap' = [heap EXCEPT ![ResultRefs.parents] = out,
                                    ![ResultRefs.branches] = heap[src.branches],
                                    ![ResultRefs.tags] = heap[src.tags]]
            /\ res' = NewGraph(out, ResultRefs.parents, ResultRefs.branches,
                               ResultRefs.tags)
            /\ mutated' = FALSE
       ELSE UNCHANGED <<heap, res, mutated>>

\* src._filter(**a), lines 143-185, as one call.
FilterCall(a) ==
    /\ src.built
    /\ \E out \in {FilterOutcome(heap, src, a)} :
           /\ interesting' = out.interesting
           /\ IF out.err # "none"
              THEN /\ err' = out.err
                   /\ UNCHANGED <<heap, res, mutated>>
              ELSE \E e \in VerifyChildMapping(out.rip, CalculateChildMapping(out.rip)) :
                       ReturnGraph(out.rip, e)
    /\ op' = "filter"
    /\ flags' = a
    /\ UNCHANGED <<src, target, lines>>
    /\ UNCHANGED searchVars

\* The first _filter call on the graph.
Filter(a) ==
    /\ op = "construct"
    /\ FilterCall(a)

\* A later _filter call with the arguments of the one before.
FilterAgain ==
    /\ op \in {"filter", "mutate"}
    /\ FilterCall(flags)

\* A _filter call on the graph after it has been rendered.
FilterAfterRender(a) ==
    /\ op = "render" /\ target = "src"
    /\ FilterCall(a)

\* The caller changes the data of the graph _filter returned: it drops an entry of
\* its parent map, or adds a ref name at id k to its branch or tag map.
MutateResult(field, k) ==
    /\ op = "filter"
    /\ res.built /\ ~mutated
    /\ IF field = "parents"
       THEN /\ IsDict(res) /\ k \in DOMAIN heap[res.parents.ref]
            /\ heap' = [heap EXCEPT ![res.parents.ref] =
                            [c \in DOMAIN @ \ {k} |-> @[c]]]
       ELSE heap' = [heap EXCEPT ![res[field]] = Put(@, k, Get(@, k) \cup LaterName)]
    /\ mutated' = TRUE
    /\ op' = "mutate" /\ err' = "none"
    /\ UNCHANGED <<src, res, flags, interesting, target, lines>>
    /\ UNCHANGED searchVars

\* The graph a render is called on.
Graph(t) == IF t = "src" THEN src ELSE res

\* g._generate_dot_file(onLabels, digits), lines 212-252: on the graph just built,
\* on the graph just returned by _filter, or a second time on a graph whose
\* self.parents the first render has rebound to a list, which raises
\* AttributeError at keys() or items().
Render(t, onLabels, digits) ==
    /\ \/ op = "construct" /\ t = "src"
       \/ op = "filter" /\ t = "res" /\ target = "none"
       \/ op = "render" /\ t = target /\ err = "none" /\ ~IsDict(Graph(t))
    /\ Graph(t).built
    /\ IF IsDict(Graph(t))
       THEN \E parents \in {ParentsDict(heap, Graph(t))} :
            \E last \in (IF DOMAIN parents = {} THEN {0} ELSE DOMAIN parents) :
               /\ lines' = DotFileLines(parents, heap[Graph(t).branches],
                                        heap[Graph(t).tags], Graph(t).dotdot,
                                        onLabels, digits, last)
               /\ src' = IF t = "src"
                         THEN [src EXCEPT !.parents = ReboundParents(src, parents, last)]
                         ELSE src
               /\ res' = IF t = "res"
                         THEN [res EXCEPT !.parents = ReboundParents(res, parents, last)]
                         ELSE res
               /\ err' = "none"
       ELSE /\ err' = "AttributeError"
            /\ UNCHANGED <<lines, src, res>>
    /\ op' = "render"
    /\ target' = t
    /\ UNCHANGED <<heap, flags, interesting, mutated>>
    /\ UNCHANGED searchVars

\* ------------------------------------------------------------------ _filter, step by step

\* A graph built from a parent map in which every parent is a key, without refs.
InitSearch ==
    /\ \E pm \in ClosedParentMaps :
           /\ Loaded(pm, EmptyMap, EmptyMap)
           /\ src = NewGraph(pm, "parent_map", "branch_dict", "tag_dict")
    /\ op = "construct"

\* The search in progress, as SearchStep takes it.
CurrentSearch ==
    [to_visit |-> to_visit, idx |-> idx, seen |-> seen, found |-> rip[commit_i],
     err |-> "none", adds |-> seenAdds, expanded |-> expanded]

\* Lines 143-157: _filter is entered and has collected `interesting`.
FilterEnter(a) ==
    /\ spc = "idle" /\ op = "construct"
    /\ interesting' = Interesting(heap, src, a)
    /\ todo' = Interesting(heap, src, a)
    /\ rip' = EmptyMap
    /\ flags' = a
    /\ spc' = "outer"
    /\ UNCHANGED <<heap, src, res, op, err, target, lines, mutated>>
    /\ UNCHANGED <<commit_i, to_visit, idx, seen, expanded, seenAdds>>

\* Lines 159-168: the outer loop takes its next commit and sets up the search.
OuterNext ==
    /\ spc = "outer"
    /\ \E i \in todo :
       \E s \in {StartSearch(ParentsDict(heap, src), i)} :
           /\ commit_i' = i
           /\ to_visit' = s.to_visit /\ idx' = s.idx /\ seen' = s.seen
           /\ rip' = Put(rip, i, s.found)
           /\ expanded' = s.expanded /\ seenAdds' = s.adds
    /\ spc' = "inner"
    /\ UNCHANGED <<heap, src, res, op, err, flags, interesting, target, lines, mutated>>
    /\ UNCHANGED todo

\* Lines 170-181: one iteration of the inner loop.
InnerStep ==
    /\ spc = "inner" /\ idx <= Len(to_visit)
    /\ \E s \in {SearchStep(ParentsDict(heap, src), interesting, CurrentSearch)} :
           /\ to_visit' = s.to_visit /\ idx' = s.idx /\ seen' = s.seen
           /\ rip' = [rip EXCEPT ![commit_i] = s.found]
           /\ expanded' = s.expanded /\ seenAdds' = s.adds
           /\ err' = s.err
           /\ spc' = IF s.err = "none" THEN "inner" ELSE "raised"
           /\ op' = IF s.err = "none" THEN op ELSE "filter"
    /\ UNCHANGED <<heap, src, res, flags, interesting, target, lines, mutated>>
    /\ UNCHANGED <<todo, commit_i>>

\* The inner for-loop finds its list exhausted.
InnerExit ==
    /\ spc = "inner" /\ idx > Len(to_visit)
    /\ todo' = todo \ {commit_i}
    /\ spc' = "outer"
    /\ UNCHANGED <<heap, src, res, op, err, flags, interesting, target, lines, mutated>>
    /\ UNCHANGED <<commit_i, to_visit, idx, seen, rip, expanded, seenAdds>>

\* Lines 183-185: the outer loop is done and the new graph is built.
FilterReturn ==
    /\ spc = "outer" /\ todo = {}
    /\ \E e \in VerifyChildMapping(rip, CalculateChildMapping(rip)) : ReturnGraph(rip, e)
    /\ op' = "filter"
    /\ spc' = "returned"
    /\ UNCHANGED <<src, flags, interesting, target, lines>>
    /\ UNCHANGED <<todo, commit_i, to_visit, idx, seen, rip, expanded, seenAdds>>

\* ------------------------------------------------------------------ specifications

\* Construction and filtering with every choice of arguments.
Next ==
    \/ Construct
    \/ \E a \in FlagChoices : Filter(a)

Spec == Init /\ [][Next]_vars

\* Filtering, and the caller changing what it got back.
NextAlias ==
    \/ Construct
    \/ \E a \in FlagsRefsRoots : Filter(a)
    \/ FilterAgain
    \/ \E field \in {"parents", "branches", "tags"}, k \in Ids : MutateResult(field, k)

SpecAlias == Init /\ [][NextAlias]_vars

\* Filtering and rendering.
NextRender ==
    \/ Construct
    \/ \E a \in FlagsRefsRoots : Filter(a)
    \/ \E t \in {"src", "res"}, onLabels \in BOOLEAN, digits \in DigitChoices :
           Render(t, onLabels, digits)
    \/ \E a \in {DefaultFlags, [DefaultFlags EXCEPT !.roots = TRUE]} :
           FilterAfterRender(a)

SpecRender == Init /\ [][NextRender]_vars

\* One _filter call, an iteration at a time.  The call is sequential code with no
\* blocking step: a step that can be taken is taken.
NextSearch ==
    \/ \E a \in FlagsDefault : FilterEnter(a)
    \/ OuterNext
    \/ InnerStep
    \/ InnerExit
    \/ FilterReturn

SpecSearch == InitSearch /\ [][NextSearch]_vars /\ WF_vars(NextSearch)

\* ------------------------------------------------------------------ properties

\* _filter has just returned a graph for a receiver whose self.parents is a dict.
Filtered == op = "filter" /\ err = "none" /\ IsDict(src)

\* The receiver's and the result's parent maps.
SrcParents == ParentsDict(heap, src)
ResParents == ParentsDict(heap, res)

RECURSIVE Closure(_, _, _, _)
\* The commits a parent path of at least one edge leads to from the commits in
\* `from`, where a path may pass through a commit only if it is not in `stops`.
Closure(par, stops, from, n) ==
    IF n = 0 THEN {}
    ELSE LET direct == UNION {Get(par, x) : x \in from}
         IN  direct \cup Closure(par, stops, direct \ stops, n - 1)

\* The interesting commits j with a path i -> x1 -> ... -> xk -> j, no xm in I.
NearestInteresting(par, I, i) == I \cap Closure(par, I, {i}, MaxCommit)

\* b is reachable from a along parent edges (one or more).
Reach(par, a, b) == b \in Closure(par, {}, {a}, MaxCommit)

\* C1: whenever _filter returns a graph, the keys of its parent map are exactly
\* the interesting set, and the parents of each interesting i are exactly the
\* interesting commits reachable from i by a parent path whose inner commits are
\* all uninteresting.
C1_NearestInterestingAncestors ==
    Filtered =>
        /\ DOMAIN ResParents = interesting
        /\ \A i \in interesting :
               ResParents[i] = NearestInteresting(SrcParents, interesting, i)

\* A chain of uninteresting commits has been collapsed into one edge.
C1_Witness ==
    /\ Filtered
    /\ \E i \in interesting : \E j \in ResParents[i] :
           /\ j \notin Get(SrcParents, i)
           /\ \E x \in Get(SrcParents, i) : x \notin interesting /\ j \in Get(SrcParents, x)

\* C2: whenever _filter returns a graph, one interesting commit is reachable from
\* another in the filtered graph iff it is in the original graph; the filtered
\* graph has no cycle and no edge from a commit to itself.
C2_ReachabilityPreserved ==
    Filtered =>
        /\ \A a \in interesting : \A b \in interesting \ {a} :
               Reach(ResParents, a, b) <=> Reach(SrcParents, a, b)
        /\ \A c \in DOMAIN ResParents :
               c \notin ResParents[c] /\ ~Reach(ResParents, c, c)

\* Three interesting commits in a row: the last is reachable from the first in
\* both graphs, in the filtered one only through the middle one.
C2_Witness ==
    /\ Filtered
    /\ \E a \in interesting : \E m \in ResParents[a] : \E b \in ResParents[m] :
           /\ b \notin ResParents[a]
           /\ Reach(ResParents, a, b) /\ Reach(SrcParents, a, b)

\* children is the inverse of parents and has every key of parents.
Inverse(par, ch) ==
    /\ DOMAIN par \subseteq DOMAIN ch
    /\ \A c \in Ids : \A p \in Ids :
           (c \in DOMAIN par /\ p \in par[c]) <=> (p \in DOMAIN ch /\ c \in ch[p])

\* C3: after construction of a graph, from the loader's parent map or by _filter,
\* p is in parents[c] iff c is in children[p], and every key of parents is a key
\* of children.
C3_ChildrenInverse ==
    /\ (op = "construct" /\ err = "none") => Inverse(SrcParents, src.children)
    /\ (op = "filter" /\ err = "none") => Inverse(ResParents, res.children)

\* A filtered graph with an edge, whose child end has no children of its own.
C3_Witness ==
    /\ op = "filter" /\ err = "none"
    /\ \E c \in DOMAIN ResParents :
           ResParents[c] # {} /\ res.children[c] = {}

C5_MissingParentIsNoError ==
    (op = "filter" /\ IsDict(src)) => err = "none"

\* The ids with a ref.
Labelled(h, g) == DOMAIN h[g.branches] \cup DOMAIN h[g.tags]

\* C6 as stated: with any flags, the result's branch and tag maps equal the
\* receiver's and every id with a ref is interesting and a key of the result's
\* parent map.
C6_LabelsRetainedAnyFlags ==
    Filtered =>
        /\ heap[res.branches] = heap[src.branches]
        /\ heap[res.tags] = heap[src.tags]
        /\ Labelled(heap, res) \subseteq interesting \cap DOMAIN ResParents

\* C6, amended: with any flags the result's branch and tag maps equal the
\* receiver's; every id with a branch is interesting and a key of the result's
\* parent map when the branches flag is set, and every id with a tag when the
\* tags flag is set.
C6_LabelsRetainedWhenRequested ==
    Filtered =>
        /\ heap[res.branches] = heap[src.branches]
        /\ heap[res.tags] = heap[src.tags]
        /\ flags.branches =>
               DOMAIN heap[res.branches] \subseteq interesting \cap DOMAIN ResParents
        /\ flags.tags =>
               DOMAIN heap[res.tags] \subseteq interesting \cap DOMAIN ResParents

\* A default call on a graph with a branch and a tag at different commits, which
\* drops a commit without ref.
C6_Witness ==
    /\ Filtered
    /\ flags = DefaultFlags
    /\ DOMAIN heap[res.branches] # {} /\ DOMAIN heap[res.tags] # {}
    /\ DOMAIN heap[res.branches] # DOMAIN heap[res.tags]
    /\ Labelled(heap, res) \subseteq DOMAIN SrcParents
    /\ DOMAIN ResParents # DOMAIN SrcParents

\* A parent map with an entry naming a parent that has no entry of its own.
Corrupted(pm) == \E c \in DOMAIN pm : \E p \in pm[c] : p \notin DOMAIN pm

\* C7 as stated: construction from a parent map with an entry whose parent is not
\* reciprocated raises the consistency error.
C7_CorruptedMapRaises ==
    (op = "construct" /\ Corrupted(heap["parent_map"])) => err = "AssertionError"

\* C7, amended: construction never raises: _verify_child_mapping checks the child
\* map derived from the very parent map it is compared with, so it passes for
\* every parent map, also one naming a parent without entry, and for every
\* parent map _filter builds.
C7_ConstructionNeverRaises ==
    /\ op = "construct" => (err = "none" /\ src.built)
    /\ op = "filter" => err \notin {"AssertionError"}
    /\ Filtered => VerifyChildMapping(ResParents, res.children) = {"none"}

\* A graph built from a parent map naming a parent without entry.
C7_Witness ==
    /\ op = "construct" /\ err = "none" /\ src.built
    /\ Corrupted(heap["parent_map"])

\* C8: a render leaves the maps of the graph it is called on (and of the other
\* graph) as they were.
C8_RenderLeavesGraph ==
    [][op' = "render" =>
           /\ GraphVal(heap', src') = GraphVal(heap, src)
           /\ GraphVal(heap', res') = GraphVal(heap, res)]_vars

\* The lines that declare node k.
Declarations(ls, k) ==
    {n \in 1..Len(ls) : ls[n].kind \in {"node", "dotdot", "plain"} /\ ls[n].ref = k}

\* The edge lines from c to p.
EdgesFromTo(ls, c, p) ==
    {n \in 1..Len(ls) : ls[n].kind = "edge" /\ ls[n].ref = c /\ ls[n].target = p}

\* The lines ls render the refs and edges of a graph with these maps completely.
RenderComplete(ls, parents, branches, tags) ==
    /\ \A k \in DOMAIN branches \cup DOMAIN tags :
           /\ Cardinality(Declarations(ls, k)) = 1
           /\ \A n \in Declarations(ls, k) :
                  /\ ls[n].kind = "node"
                  /\ ls[n].color = IF k \notin DOMAIN branches THEN 1
                                   ELSE IF k \notin DOMAIN tags THEN 2
                                   ELSE 3
    /\ \A c \in Ids : \A p \in Ids :
           Cardinality(EdgesFromTo(ls, c, p)) =
               IF c \in DOMAIN parents /\ p \in parents[c] THEN 1 ELSE 0

\* C9: the lines of a render of a freshly filtered graph hold, for every id with a
\* ref, exactly one node declaration, of color case 1 (tags only), 2 (branches
\* only) or 3 (both), and exactly one edge line child -> parent for every pair
\* with p in parents[c], and no other edge line.
C9_RenderComplete ==
    [][(op = "filter" /\ err = "none" /\ op' = "render" /\ target' = "res") =>
           /\ err' = "none"
           /\ RenderComplete(lines', ResParents, heap[res.branches], heap[res.tags])]_vars

\* A filtered graph has been rendered: a tagged commit, a commit with a branch
\* and an edge between them.
C9_Witness ==
    /\ op = "render" /\ target = "res" /\ err = "none"
    /\ \E a \in 1..Len(lines) : \E b \in 1..Len(lines) : \E e \in 1..Len(lines) :
           /\ lines[a].kind = "node" /\ lines[a].color = 1
           /\ lines[b].kind = "node" /\ lines[b].color = 2
           /\ lines[e].kind = "edge"
           /\ {lines[e].ref, lines[e].target} = {lines[a].ref, lines[b].ref}

\* C10 as stated, its last part: no parent of an interesting commit found in the
\* search is expanded.
C10_NoParentOfFoundExpanded ==
    spc = "inner" =>
        \A j \in rip[commit_i] : \A p \in Get(SrcParents, j) : p \notin expanded

\* What holds during a search: a commit is added to seen at most once, no
\* interesting commit is expanded, and an expanded commit was queued as a parent
\* of the start commit or of another expanded commit.
SearchInvariant ==
    spc = "inner" =>
        /\ \A c \in Ids : seenAdds[c] <= 1
        /\ expanded \cap interesting = {}
        /\ rip[commit_i] \cap expanded = {}
        /\ \A e \in expanded :
               \/ e \in Get(SrcParents, commit_i)
               \/ \E x \in expanded : e \in SrcParents[x]

\* C10, amended: on an acyclic parent map in which every parent is a key, the
\* _filter call terminates (every work list is exhausted and the graph is
\* returned), within one search each commit is added to seen at most once, and no
\* interesting commit found is itself expanded: a parent of it is expanded only
\* if the search also reaches it through commits that are not interesting.
C10_SearchTerminates ==
    /\ <>(spc = "returned" /\ err = "none")
    /\ []SearchInvariant
    /\ [](spc = "returned" => rip = SearchAll(SrcParents, interesting).rip)

\* A search is over whose list held a commit twice, which expanded a commit and
\* found an interesting one.
C10_Witness ==
    /\ spc = "inner" /\ idx > Len(to_visit)
    /\ Len(to_visit) > Cardinality(seen)
    /\ expanded # {} /\ rip[commit_i] # {}

====
